---- MODULE Spec2Model ----
(***************************************************************************)
(* Portfolio ledger of bitcoin-miner-advisor: the trade log, the holdings  *)
(* projector (_recompute_holding), the cash accumulator (_adjust_cash) and *)
(* the HTTP handlers that drive them (src/app/cache.py, src/app/routes.py).*)
(*                                                                         *)
(* Money is counted in units of 1e-5 dollar, so that a price can carry     *)
(* more decimals than the 4 that round(avg_cost, 4) keeps and the 2 that   *)
(* round(current, 2) keeps: both roundings are modelled, to the nearest    *)
(* multiple with ties to the even multiple (Python's round on an exactly   *)
(* representable value).  Quantities are whole shares, so round(shares, 8) *)
(* changes nothing.  Dates are day numbers; ISO date strings compare in    *)
(* the same order.                                                         *)
(***************************************************************************)
EXTENDS Integers, Sequences, FiniteSets, TLC

VARIABLES
    trades,     \* table trades: set of rows
    holdings,   \* table holdings: set of rows, primary key (user_id, ticker)
    cash,       \* settings row 'cash_balance' per user_id (0 when absent)
    nextId,     \* next AUTOINCREMENT id of table trades
    lastOp,     \* history: the last operation, its arguments and what it saw
    cash0,      \* history: the cash balance each owner started with
    analyses,   \* table analyses: set of rows
    prices,     \* table prices: set of rows, primary key (ticker, date)
    nextAnalysisId, \* next AUTOINCREMENT id of table analyses
    today,      \* date.today() as the scorer reads it
    reqs,       \* requests in flight: each one's handler, arguments, locals, position
    txn,        \* the open write transaction: its connection's request, its uncommitted rows
    loop,       \* the request whose coroutine is running on the event loop (0: none)
    active,     \* settings row 'active_tickers': the <<user_id, ticker>> pairs listed
    db0         \* history: the database when the requests in flight were issued

vars == <<trades, holdings, cash, nextId, lastOp, cash0,
          analyses, prices, nextAnalysisId, today,
          reqs, txn, loop, active, db0>>

\* what the handlers that run to completion one at a time leave alone
inFlight == <<reqs, txn, loop, active, db0>>

----------------------------------------------------------------------------
\* Bounds and units

MaxTrades == 3          \* ids 1..MaxTrades may be assigned

CentUnits == 1000       \* round(current, 2): one cent in money units
AvgUnits == 10          \* round(avg_cost, 4): 1e-4 dollar in money units
Today == 5              \* date.today() on the day the ledger is operated

AutoMigratedNote == "initial position (auto-migrated)"

FirstDay == 1           \* the day the scorer's clock starts at

Owners == {"u1", "u2"}
Tickers == {"MARA", "RIOT"}

----------------------------------------------------------------------------
\* Arithmetic

Abs(x) == IF x < 0 THEN -x ELSE x

RECURSIVE Gcd(_, _)
Gcd(a, b) == IF b = 0 THEN a ELSE Gcd(b, a % b)

\* The fraction n/d (d # 0) in lowest terms with a positive denominator.
Normalize(n, d) ==
    LET g == Gcd(Abs(n), Abs(d))
        s == IF d < 0 THEN -1 ELSE 1
    IN  [n |-> s * (n \div g), d |-> s * (d \div g)]

\* round(): n/d (d > 0) to the nearest multiple of unit, ties to the even
\* multiple.
RoundHalfEven(n, d, unit) ==
    LET m == d * unit
        q == n \div m
        r == n - q * m
    IN  IF 2 * r < m THEN q * unit
        ELSE IF 2 * r > m THEN (q + 1) * unit
        ELSE IF q % 2 = 0 THEN q * unit ELSE (q + 1) * unit

----------------------------------------------------------------------------
\* The database seen by one connection

Db == [trades |-> trades, holdings |-> holdings, cash |-> cash, nextId |-> nextId]

TradesOf(db, uid, ticker) ==
    {t \in db.trades : t.user_id = uid /\ t.ticker = ticker}

HoldingRows(db, uid, ticker) ==
    {h \in db.holdings : h.user_id = uid /\ h.ticker = ticker}

\* INSERT INTO trades (...): the row gets the next AUTOINCREMENT id.
InsertTrade(db, uid, ticker, date, trade_type, price, quantity, notes) ==
    [db EXCEPT
        !.trades = @ \cup {[id |-> db.nextId, user_id |-> uid, ticker |-> ticker,
                            date |-> date, trade_type |-> trade_type,
                            price |-> price, quantity |-> quantity,
                            notes |-> notes]},
        !.nextId = @ + 1]

\* INSERT INTO holdings ... ON CONFLICT(user_id, ticker) DO UPDATE
UpsertHoldingRow(db, uid, ticker, shares, avg_cost) ==
    [db EXCEPT !.holdings =
        (@ \ HoldingRows(db, uid, ticker))
            \cup {[user_id |-> uid, ticker |-> ticker,
                   shares |-> shares, avg_cost |-> avg_cost]}]

\* DELETE FROM holdings WHERE user_id = ? AND ticker = ?
DeleteHoldingRow(db, uid, ticker) ==
    [db EXCEPT !.holdings = @ \ HoldingRows(db, uid, ticker)]

\* with get_conn() as conn: sqlite3 commits the block's writes when it ends
\* normally and rolls all of them back when it raises.
ConnKeepPartial(before, working, raised) == working

ConnExit(before, working, raised) == IF raised THEN before ELSE working

----------------------------------------------------------------------------
\* Holdings projector

\* ORDER BY date ASC, id ASC
OrderById(a, b) == a.id < b.id

OrderByDateIdDesc(a, b) == a.date < b.date \/ (a.date = b.date /\ a.id > b.id)

OrderByDateId(a, b) == a.date < b.date \/ (a.date = b.date /\ a.id < b.id)

RECURSIVE SortedRows(_)
SortedRows(rows) ==
    IF rows = {} THEN <<>>
    ELSE LET first == CHOOSE t \in rows : \A u \in rows \ {t} : OrderByDateId(t, u)
         IN  <<first>> \o SortedRows(rows \ {first})

\* One pass of the replay loop.  pos = [shares, n, d, raised]: avg_cost is
\* the fraction n/d; raised is the ZeroDivisionError of total_cost / shares.
ApplyBuyNoWeight(pos, t) ==
    [pos EXCEPT !.shares = pos.shares + t.quantity, !.n = t.price, !.d = 1]

ApplyBuy(pos, t) ==
    LET shares == pos.shares + t.quantity
        num    == pos.shares * pos.n + t.quantity * t.price * pos.d
    IN  IF shares = 0 THEN [pos EXCEPT !.raised = TRUE]
        ELSE LET f == Normalize(num, pos.d * shares)
             IN  [pos EXCEPT !.shares = shares, !.n = f.n, !.d = f.d]

ApplySellReaverages(pos, t) ==
    LET shares == IF pos.shares - t.quantity > 0 THEN pos.shares - t.quantity ELSE 0
        num    == pos.shares * pos.n - t.quantity * t.price * pos.d
    IN  IF shares = 0 THEN [pos EXCEPT !.shares = 0]
        ELSE LET f == Normalize(num, pos.d * shares)
             IN  [pos EXCEPT !.shares = shares, !.n = f.n, !.d = f.d]

ApplySellNoClamp(pos, t) == [pos EXCEPT !.shares = pos.shares - t.quantity]

ApplySell(pos, t) ==
    [pos EXCEPT !.shares = IF pos.shares - t.quantity > 0
                           THEN pos.shares - t.quantity ELSE 0]

ApplyTrade(pos, t) ==
    IF pos.raised THEN pos
    ELSE IF t.trade_type = "BUY" THEN ApplyBuy(pos, t)
    ELSE IF t.trade_type = "SELL" THEN ApplySell(pos, t)
    ELSE pos

RECURSIVE ReplayFrom(_, _)
ReplayFrom(pos, seq) ==
    IF seq = <<>> THEN pos
    ELSE ReplayFrom(ApplyTrade(pos, Head(seq)), Tail(seq))

Replay(seq) == ReplayFrom([shares |-> 0, n |-> 0, d |-> 1, raised |-> FALSE], seq)

\* Legacy migration: no BUY row, but a holdings row with shares > 0.
NeedsMigrationWithoutBuyCheck(db, uid, ticker) ==
    \E h \in HoldingRows(db, uid, ticker) : h.shares > 0

NeedsMigration(db, uid, ticker) ==
    /\ ~ \E t \in TradesOf(db, uid, ticker) : t.trade_type = "BUY"
    /\ \E h \in HoldingRows(db, uid, ticker) : h.shares > 0

\* A date column holds a string.  An ISO date is written as its day number;
\* '' is EmptyDate, which sorts before every date, and a string that
\* date.fromisoformat rejects is NotIsoDate, which sorts after them
\* ('garbage' > '2024-01-05').
EmptyDate == 0
NotIsoDate == 99

\* date.fromisoformat(s) returns a date
IsIsoDate(s) == EmptyDate < s /\ s < NotIsoDate

\* SELECT MIN(date) as d FROM trades WHERE user_id = ? AND ticker = ?
FirstTradeDate(db, uid, ticker) ==
    LET rows == TradesOf(db, uid, ticker)
    IN  IF rows = {} THEN [found |-> FALSE, d |-> EmptyDate]
        ELSE [found |-> TRUE,
              d |-> (CHOOSE t \in rows : \A u \in rows : t.date <= u.date).date]

\* the synthetic BUY dated as the earliest trade
DepositDateSameDay(db, uid, ticker) ==
    LET first_trade == FirstTradeDate(db, uid, ticker)
    IN  IF first_trade.found /\ first_trade.d # EmptyDate
        THEN first_trade.d
        ELSE Today

\* if first_trade and first_trade["d"]: the day before it; else today
DepositDate(db, uid, ticker) ==
    LET first_trade == FirstTradeDate(db, uid, ticker)
    IN  IF first_trade.found /\ first_trade.d # EmptyDate
        THEN first_trade.d - 1
        ELSE Today

\* The ValueError of date.fromisoformat(first_trade["d"]).
DepositDateRaises(db, uid, ticker) ==
    LET first_trade == FirstTradeDate(db, uid, ticker)
    IN  /\ first_trade.found
        /\ first_trade.d # EmptyDate
        /\ ~IsIsoDate(first_trade.d)

Migrate(db, uid, ticker) ==
    IF NeedsMigration(db, uid, ticker)
    THEN LET existing == CHOOSE h \in HoldingRows(db, uid, ticker) : TRUE
         IN  InsertTrade(db, uid, ticker, DepositDate(db, uid, ticker), "BUY",
                         existing.avg_cost, existing.shares, AutoMigratedNote)
    ELSE db

\* The rows written after the replay: none when shares <= 0.
StoreProjection(db, uid, ticker, pos) ==
    IF pos.shares <= 0
    THEN DeleteHoldingRow(db, uid, ticker)
    ELSE UpsertHoldingRow(db, uid, ticker, pos.shares,
                          RoundHalfEven(pos.n, pos.d, AvgUnits))

_recompute_holding(db, uid, ticker) ==
    LET db1 == Migrate(db, uid, ticker)
        pos == Replay(SortedRows(TradesOf(db1, uid, ticker)))
    IN  StoreProjection(db1, uid, ticker, pos)

\* Whether the replay inside _recompute_holding raises.
RecomputeRaises(db, uid, ticker) ==
    \/ NeedsMigration(db, uid, ticker) /\ DepositDateRaises(db, uid, ticker)
    \/ Replay(SortedRows(TradesOf(Migrate(db, uid, ticker), uid, ticker))).raised

----------------------------------------------------------------------------
\* Cash accumulator

_adjust_cash(db, uid, trade_type, price, quantity, sign) ==
    LET current == db.cash[uid]
        moved   == IF trade_type = "BUY" THEN current - sign * price * quantity
                   ELSE IF trade_type = "SELL" THEN current + sign * price * quantity
                   ELSE current
    IN  [db EXCEPT !.cash[uid] = RoundHalfEven(moved, 1, CentUnits)]

----------------------------------------------------------------------------
\* Ledger transactions (cache.py).  failAt = 0: the block ends normally;
\* failAt = k > 0: the storage raises right after the k-th write of the block.

TxnResult(before, s1, s2, s3, failAt, raisedInside) ==
    LET working == IF failAt = 1 \/ raisedInside THEN s1
                   ELSE IF failAt = 2 THEN s2
                   ELSE s3
    IN  ConnExit(before, working, failAt # 0 \/ raisedInside)

AddTradeTxn(db, uid, ticker, date, trade_type, price, quantity, failAt) ==
    LET s1 == InsertTrade(db, uid, ticker, date, trade_type, price, quantity, "")
        s2 == _recompute_holding(s1, uid, ticker)
        s3 == _adjust_cash(s2, uid, trade_type, price, quantity, 1)
    IN  TxnResult(db, s1, s2, s3, failAt, RecomputeRaises(s1, uid, ticker))

\* ... FROM trades WHERE id = ? AND user_id = ?
TradeRowsOfAnyOwner(db, uid, trade_id) == {t \in db.trades : t.id = trade_id}

TradeRows(db, uid, trade_id) ==
    {t \in db.trades : t.id = trade_id /\ t.user_id = uid}

DeleteTradeTxn(db, uid, trade_id, failAt) ==
    LET rows == TradeRows(db, uid, trade_id)
    IN  IF rows = {} THEN db
        ELSE LET row == CHOOSE t \in rows : TRUE
                 s1  == [db EXCEPT !.trades = @ \ rows]
                 s2  == _recompute_holding(s1, uid, row.ticker)
                 s3  == _adjust_cash(s2, uid, row.trade_type, row.price,
                                     row.quantity, -1)
             IN  TxnResult(db, s1, s2, s3, failAt,
                           RecomputeRaises(s1, uid, row.ticker))

\* for t in trades: _adjust_cash(..., sign=-1), in the order of the SELECT
RECURSIVE ReverseCash(_, _, _)
ReverseCash(db, uid, seq) ==
    IF seq = <<>> THEN db
    ELSE ReverseCash(_adjust_cash(db, uid, Head(seq).trade_type, Head(seq).price,
                                  Head(seq).quantity, -1),
                     uid, Tail(seq))

RECURSIVE RowsById(_)
RowsById(rows) ==
    IF rows = {} THEN <<>>
    ELSE LET first == CHOOSE t \in rows : \A u \in rows : t.id <= u.id
         IN  <<first>> \o RowsById(rows \ {first})

DeleteTickerTradesTxn(db, uid, ticker, failAt) ==
    LET rows == TradesOf(db, uid, ticker)
        s1   == [db EXCEPT !.trades = @ \ rows]
        s2   == DeleteHoldingRow(s1, uid, ticker)
        s3   == ReverseCash(s2, uid, RowsById(rows))
    IN  TxnResult(db, s1, s2, s3, failAt, FALSE)

\* upsert_holding: the row is written as given
UpsertHoldingTxn(db, uid, ticker, shares, avg_cost) ==
    UpsertHoldingRow(db, uid, ticker, shares, avg_cost)

----------------------------------------------------------------------------
\* Requests in flight.  A handler declared def runs in a worker thread, one
\* declared async def runs on the event loop, where it keeps running until
\* it awaits.  Every cache function opens a connection of its own.

Requests == {1, 2}

NoDb == [trades |-> {}, holdings |-> {}, cash |-> [u \in Owners |-> 0], nextId |-> 0]

NoTxn == [writer |-> 0, db |-> NoDb]

NoRequest ==
    [op |-> "none", pc |-> "done", uid |-> "", ticker |-> "", id |-> 0,
     date |-> 0, trade_type |-> "", price |-> 0, quantity |-> 0, sign |-> 0,
     action |-> "", amount |-> 0, rows |-> <<>>, current |-> 0,
     status |-> "ok", result |-> {}, during |-> FALSE]

\* TICKERS, the default of get_active_tickers, holds MARA and RIOT; IREN is
\* in TICKER_UNIVERSE only.
UniverseTickers == Tickers \cup {"IREN"}

DefaultActive == {<<u, t>> : u \in Owners, t \in Tickers}

----------------------------------------------------------------------------
\* History

HeldShares(db, uid, ticker) ==
    IF HoldingRows(db, uid, ticker) = {} THEN 0
    ELSE (CHOOSE h \in HoldingRows(db, uid, ticker) : TRUE).shares

HeldAvg(db, uid, ticker) ==
    IF HoldingRows(db, uid, ticker) = {} THEN 0
    ELSE (CHOOSE h \in HoldingRows(db, uid, ticker) : TRUE).avg_cost

NoOp ==
    [op |-> "init", uid |-> "", ticker |-> "", id |-> 0, date |-> 0,
     trade_type |-> "", price |-> 0, quantity |-> 0, status |-> "ok",
     failAt |-> 0, had_holding |-> FALSE, held_before |-> 0, avg_before |-> 0,
     cash_before |-> 0, removed |-> 0, round_trip |-> FALSE, cash_origin |-> 0,
     detail |-> <<>>, result |-> {}, again |-> FALSE]

Commit(db, op) ==
    /\ trades' = db.trades
    /\ holdings' = db.holdings
    /\ cash' = db.cash
    /\ nextId' = db.nextId
    /\ lastOp' = op
    /\ UNCHANGED <<cash0, analyses, prices, nextAnalysisId, today, inFlight>>

----------------------------------------------------------------------------
\* Operations of cache.py

AddTradeStep(op, uid, ticker, date, trade_type, price, quantity, failAt) ==
    LET tentative == AddTradeTxn(Db, uid, ticker, date, trade_type, price, quantity, 0)
        after     == AddTradeTxn(Db, uid, ticker, date, trade_type, price, quantity, failAt)
        raised    == RecomputeRaises(
                         InsertTrade(Db, uid, ticker, date, trade_type, price,
                                     quantity, ""), uid, ticker)
    IN  /\ tentative.nextId <= MaxTrades + 1
        /\ Commit(after,
                  [NoOp EXCEPT
                      !.op = op, !.uid = uid, !.ticker = ticker,
                      !.id = nextId, !.date = date,
                      !.trade_type = trade_type, !.price = price,
                      !.quantity = quantity, !.failAt = failAt,
                      !.status = IF raised THEN "raised"
                                 ELSE IF failAt = 0 THEN "ok" ELSE "failed",
                      !.had_holding = HoldingRows(Db, uid, ticker) # {},
                      !.held_before = HeldShares(Db, uid, ticker),
                      !.avg_before = HeldAvg(Db, uid, ticker),
                      !.cash_before = cash[uid]])

add_trade(uid, ticker, date, trade_type, price, quantity, failAt) ==
    AddTradeStep("add_trade", uid, ticker, date, trade_type, price, quantity, failAt)

delete_trade(uid, trade_id, failAt) ==
    LET rows       == TradeRows(Db, uid, trade_id)
        tentative  == DeleteTradeTxn(Db, uid, trade_id, 0)
        after      == DeleteTradeTxn(Db, uid, trade_id, failAt)
        raised     == /\ rows # {}
                      /\ \E row \in rows :
                            RecomputeRaises([Db EXCEPT !.trades = @ \ rows],
                                            uid, row.ticker)
        round_trip == /\ lastOp.op = "add_trade"
                      /\ lastOp.status = "ok"
                      /\ lastOp.uid = uid
                      /\ lastOp.id = trade_id
                      /\ failAt = 0
    IN  /\ tentative.nextId <= MaxTrades + 1
        /\ failAt # 0 => rows # {}
        /\ Commit(after,
                  [NoOp EXCEPT
                      !.op = "delete_trade", !.uid = uid, !.id = trade_id,
                      !.ticker = IF rows = {} THEN ""
                                 ELSE (CHOOSE row \in rows : TRUE).ticker,
                      !.failAt = failAt,
                      !.status = IF raised THEN "raised"
                                 ELSE IF failAt = 0 THEN "ok" ELSE "failed",
                      !.removed = Cardinality(rows),
                      !.round_trip = round_trip,
                      !.cash_origin = IF round_trip THEN lastOp.cash_before ELSE 0])

delete_ticker_trades(uid, ticker, failAt) ==
    LET after == DeleteTickerTradesTxn(Db, uid, ticker, failAt)
    IN  /\ failAt # 0 => TradesOf(Db, uid, ticker) # {}
        /\ Commit(after,
                  [NoOp EXCEPT
                      !.op = "delete_ticker_trades", !.uid = uid,
                      !.ticker = ticker, !.failAt = failAt,
                      !.status = IF failAt = 0 THEN "ok" ELSE "failed",
                      !.removed = Cardinality(TradesOf(Db, uid, ticker))])

upsert_holding(uid, ticker, shares, avg_cost) ==
    Commit(UpsertHoldingTxn(Db, uid, ticker, shares, avg_cost),
           [NoOp EXCEPT
               !.op = "upsert_holding", !.uid = uid, !.ticker = ticker,
               !.quantity = shares, !.price = avg_cost])

----------------------------------------------------------------------------
\* The ledger driven directly: add_trade, delete_trade, delete_ticker_trades
\* of one owner, from an empty ledger.

LedgerUsers == {"u1"}
LedgerTickers == {"MARA"}
InitialCash == {25000}
TradeDates == {2, 4}
TradeTypes == {"BUY", "SELL"}
\* <<price, quantity>> of a trade: one share at 0.125 dollar, two at 0.25
TradeShapes == {<<12500, 1>>, <<25000, 2>>}

Init ==
    /\ trades = {}
    /\ holdings = {}
    /\ \E c \in InitialCash :
          cash0 = [u \in Owners |-> IF u \in LedgerUsers THEN c ELSE 0]
    /\ cash = cash0
    /\ nextId = 1
    /\ lastOp = NoOp
    /\ analyses = {}
    /\ prices = {}
    /\ nextAnalysisId = 1
    /\ today = FirstDay
    /\ reqs = [r \in Requests |-> NoRequest]
    /\ txn = NoTxn
    /\ loop = 0
    /\ active = DefaultActive
    /\ db0 = NoDb

NextLedger ==
    \/ \E uid \in LedgerUsers, ticker \in LedgerTickers, date \in TradeDates,
          trade_type \in TradeTypes, shape \in TradeShapes :
            add_trade(uid, ticker, date, trade_type, shape[1], shape[2], 0)
    \/ \E uid \in LedgerUsers, trade_id \in 1..MaxTrades :
            delete_trade(uid, trade_id, 0)
    \/ \E uid \in LedgerUsers, ticker \in LedgerTickers :
            delete_ticker_trades(uid, ticker, 0)

SpecLedger == Init /\ [][NextLedger]_vars

----------------------------------------------------------------------------
\* The same operations, each either ending normally or failing after its
\* first, second or last write.

FailPoints == 0..3
TxnDates == {2}
\* whole cents: 0.20 and 0.30 dollar
TxnShapes == {<<20000, 1>>, <<30000, 2>>}
CloseShapes == {<<12500, 1>>, <<25000, 2>>}

NextTxn ==
    \/ \E uid \in LedgerUsers, ticker \in LedgerTickers, date \in TxnDates,
          trade_type \in TradeTypes, shape \in TxnShapes, failAt \in FailPoints :
            add_trade(uid, ticker, date, trade_type, shape[1], shape[2], failAt)
    \/ \E uid \in LedgerUsers, trade_id \in 1..MaxTrades, failAt \in FailPoints :
            delete_trade(uid, trade_id, failAt)
    \/ \E uid \in LedgerUsers, ticker \in LedgerTickers, failAt \in FailPoints :
            delete_ticker_trades(uid, ticker, failAt)

SpecTxn == Init /\ [][NextTxn]_vars

----------------------------------------------------------------------------
\* The same operations over two tickers.

NextClose ==
    \/ \E uid \in LedgerUsers, ticker \in Tickers, date \in TxnDates,
          trade_type \in TradeTypes, shape \in CloseShapes :
            add_trade(uid, ticker, date, trade_type, shape[1], shape[2], 0)
    \/ \E uid \in LedgerUsers, trade_id \in 1..MaxTrades :
            delete_trade(uid, trade_id, 0)
    \/ \E uid \in LedgerUsers, ticker \in Tickers :
            delete_ticker_trades(uid, ticker, 0)

SpecClose == Init /\ [][NextClose]_vars

----------------------------------------------------------------------------
\* Handlers of routes.py, for one request each.  The tickers of the model are
\* in data.TICKERS, the default active list, so create_trade's branch for a
\* ticker that is not active is not taken.

OversellOnlyWhenHeld(quantity, held) == held > 0 /\ quantity > held

\* if body.quantity > held
Oversell(quantity, held) == quantity > held

create_trade(uid, ticker, date, trade_type, price, quantity) ==
    LET held == HeldShares(Db, uid, ticker)
    IN  IF trade_type = "SELL" /\ Oversell(quantity, held)
        THEN Commit(Db,
                    [NoOp EXCEPT
                        !.op = "create_trade", !.uid = uid, !.ticker = ticker,
                        !.date = date, !.trade_type = trade_type,
                        !.price = price, !.quantity = quantity,
                        !.status = "rejected",
                        !.had_holding = HoldingRows(Db, uid, ticker) # {},
                        !.held_before = held,
                        !.detail = <<quantity, ticker, held>>])
        ELSE AddTradeStep("create_trade", uid, ticker, date, trade_type,
                          price, quantity, 0)

remove_trade(uid, trade_id) == delete_trade(uid, trade_id, 0)

remove_holding(uid, ticker) == delete_ticker_trades(uid, ticker, 0)

save_holding(uid, ticker, shares, avg_cost) ==
    upsert_holding(uid, ticker, shares, avg_cost)

ApiDates == {2, 4}
ApiShapes == {<<12500, 1>>, <<25000, 2>>}
SeedShares == {0, 2}
SeedCosts == {12500}

Next ==
    \/ \E uid \in LedgerUsers, ticker \in LedgerTickers, date \in ApiDates,
          trade_type \in TradeTypes, shape \in ApiShapes :
            create_trade(uid, ticker, date, trade_type, shape[1], shape[2])
    \/ \E uid \in LedgerUsers, trade_id \in 1..MaxTrades :
            remove_trade(uid, trade_id)
    \/ \E uid \in LedgerUsers, ticker \in LedgerTickers :
            remove_holding(uid, ticker)
    \/ \E uid \in LedgerUsers, ticker \in LedgerTickers,
          shares \in SeedShares, avg_cost \in SeedCosts :
            save_holding(uid, ticker, shares, avg_cost)

Spec == Init /\ [][Next]_vars

----------------------------------------------------------------------------
\* The trade handlers alone: POST /api/trades, DELETE /api/trades/{id} and
\* DELETE /api/portfolio/{ticker}, from an empty ledger.

NextTrades ==
    \/ \E uid \in LedgerUsers, ticker \in LedgerTickers, date \in ApiDates,
          trade_type \in TradeTypes, shape \in ApiShapes :
            create_trade(uid, ticker, date, trade_type, shape[1], shape[2])
    \/ \E uid \in LedgerUsers, trade_id \in 1..MaxTrades :
            remove_trade(uid, trade_id)
    \/ \E uid \in LedgerUsers, ticker \in LedgerTickers :
            remove_holding(uid, ticker)

SpecTrades == Init /\ [][NextTrades]_vars

----------------------------------------------------------------------------
\* Hand-entered positions: a holdings row written by upsert_holding, then the
\* ledger operations and the projector run on its own (_recompute_holding
\* called with a connection that is committed afterwards).

RecomputeHoldingStep(uid, ticker) ==
    LET after  == _recompute_holding(Db, uid, ticker)
        raised == RecomputeRaises(Db, uid, ticker)
    IN  /\ after.nextId <= MaxTrades + 1
        /\ Commit(ConnExit(Db, after, raised),
                  [NoOp EXCEPT
                      !.op = "_recompute_holding", !.uid = uid, !.ticker = ticker,
                      !.status = IF raised THEN "raised" ELSE "ok",
                      !.had_holding = HoldingRows(Db, uid, ticker) # {},
                      !.held_before = HeldShares(Db, uid, ticker),
                      !.avg_before = HeldAvg(Db, uid, ticker)])

SeededShares == {2}
\* 0.125 dollar, and 0.12504 dollar, which has more than 4 decimals
SeededCosts == {12500, 12504}
SeededDates == {2}
SeededShapes == {<<25000, 1>>, <<25000, 3>>}

NextSeeded ==
    \/ \E uid \in LedgerUsers, ticker \in LedgerTickers,
          shares \in SeededShares, avg_cost \in SeededCosts :
            upsert_holding(uid, ticker, shares, avg_cost)
    \/ \E uid \in LedgerUsers, ticker \in LedgerTickers :
            RecomputeHoldingStep(uid, ticker)
    \/ \E uid \in LedgerUsers, ticker \in LedgerTickers, date \in SeededDates,
          trade_type \in TradeTypes, shape \in SeededShapes :
            add_trade(uid, ticker, date, trade_type, shape[1], shape[2], 0)
    \/ \E uid \in LedgerUsers, trade_id \in 1..MaxTrades :
            delete_trade(uid, trade_id, 0)

SpecSeeded == Init /\ [][NextSeeded]_vars

----------------------------------------------------------------------------
\* Hand-entered positions, trades on two dates, so that the earliest trade
\* date of a ticker is not the date of its newest trade, and the projector
\* run on its own.

DatedShares == {2}
DatedCosts == {12500}
DatedDates == {2, 4}
DatedShapes == {<<25000, 1>>}

NextDated ==
    \/ \E uid \in LedgerUsers, ticker \in LedgerTickers :
            RecomputeHoldingStep(uid, ticker)
    \/ \E uid \in LedgerUsers, ticker \in LedgerTickers,
          shares \in DatedShares, avg_cost \in DatedCosts :
            upsert_holding(uid, ticker, shares, avg_cost)
    \/ \E uid \in LedgerUsers, ticker \in LedgerTickers, date \in DatedDates,
          trade_type \in TradeTypes, shape \in DatedShapes :
            add_trade(uid, ticker, date, trade_type, shape[1], shape[2], 0)
    \/ \E uid \in LedgerUsers, trade_id \in 1..MaxTrades :
            delete_trade(uid, trade_id, 0)

SpecDated == Init /\ [][NextDated]_vars

----------------------------------------------------------------------------
\* The same with any string as a trade's date: TradeIn declares date: str,
\* and add_trade stores what it is given.

AnyDateStrings == {EmptyDate, 2, NotIsoDate}

NextAnyDate ==
    \/ \E uid \in LedgerUsers, ticker \in LedgerTickers,
          shares \in DatedShares, avg_cost \in DatedCosts :
            upsert_holding(uid, ticker, shares, avg_cost)
    \/ \E uid \in LedgerUsers, ticker \in LedgerTickers, date \in AnyDateStrings,
          trade_type \in TradeTypes, shape \in DatedShapes :
            add_trade(uid, ticker, date, trade_type, shape[1], shape[2], 0)
    \/ \E uid \in LedgerUsers, trade_id \in 1..MaxTrades :
            delete_trade(uid, trade_id, 0)

SpecAnyDate == Init /\ [][NextAnyDate]_vars

----------------------------------------------------------------------------
\* Recommendation log, price store and outcome scorer (cache.py).  Prices
\* are positive integers; a return is counted in hundredths of a percent, the
\* unit round(..., 2) keeps.  run_date is a valid date, signals is a dict
\* (a set of <<key, value>> pairs) and close is a number, as the analysis
\* pipeline and the price feed write them.

MaxAnalyses == 2        \* ids 1..MaxAnalyses may be assigned

Horizon == 14           \* timedelta(days=14)
HoldBand == 500         \* 5.0 percent
HistoryLimit == 12      \* limit: int = 12

\* d["signals"].get(key)
SignalsGet(signals, key) ==
    IF \E kv \in signals : kv[1] = key
    THEN [found |-> TRUE, value |-> (CHOOSE kv \in signals : kv[1] = key)[2]]
    ELSE [found |-> FALSE, value |-> 0]

\* The parameters save_analysis can still take by keyword after its five
\* positional arguments: none.  A call with any other keyword raises
\* TypeError before the body runs.
SaveAnalysisKeywords == {}

SaveAnalysisAccepts(keywords) == keywords \subseteq SaveAnalysisKeywords

\* INSERT INTO analyses (...): the row gets the next AUTOINCREMENT id.
InsertAnalysis(rows, id, run_date, ticker, signals, recommendation, reasoning) ==
    rows \cup {[id |-> id, run_date |-> run_date, ticker |-> ticker,
                signals |-> signals, recommendation |-> recommendation,
                reasoning |-> reasoning]}

save_analysis(run_date, ticker, signals, recommendation, reasoning, keywords) ==
    /\ nextAnalysisId <= MaxAnalyses
    /\ IF SaveAnalysisAccepts(keywords)
       THEN /\ analyses' = InsertAnalysis(analyses, nextAnalysisId, run_date,
                                          ticker, signals, recommendation,
                                          reasoning)
            /\ nextAnalysisId' = nextAnalysisId + 1
            /\ lastOp' = [NoOp EXCEPT !.op = "save_analysis", !.ticker = ticker]
       ELSE /\ UNCHANGED <<analyses, nextAnalysisId>>
            /\ lastOp' = [NoOp EXCEPT !.op = "save_analysis", !.ticker = ticker,
                                      !.status = "raised"]
    /\ UNCHANGED <<trades, holdings, cash, nextId, cash0, prices, today, inFlight>>

\* advisor.run_analysis, for one ticker: run_date is today, and the call
\* passes confidence= and key_risk=.
run_analysis(ticker, signals, recommendation) ==
    save_analysis(today, ticker, signals, recommendation, "",
                  {"confidence", "key_risk"})

\* INSERT OR REPLACE INTO prices, one row after the other
RECURSIVE UpsertPriceRows(_, _, _)
UpsertPriceRows(rows, ticker, batch) ==
    IF batch = <<>> THEN rows
    ELSE LET r == Head(batch)
             kept == {x \in rows : ~(x.ticker = ticker /\ x.date = r.date)}
         IN  UpsertPriceRows(kept \cup {[ticker |-> ticker, date |-> r.date,
                                         close |-> r.close]},
                             ticker, Tail(batch))

upsert_prices(ticker, batch) ==
    /\ prices' = UpsertPriceRows(prices, ticker, batch)
    /\ lastOp' = [NoOp EXCEPT !.op = "upsert_prices", !.ticker = ticker]
    /\ UNCHANGED <<trades, holdings, cash, nextId, cash0, analyses,
                   nextAnalysisId, today, inFlight>>

\* the newest row on or after target_date
get_price_newest(rows, ticker, target_date) ==
    LET hits == {x \in rows : x.ticker = ticker /\ x.date >= target_date}
    IN  IF hits = {} THEN [found |-> FALSE, close |-> 0]
        ELSE [found |-> TRUE,
              close |-> (CHOOSE x \in hits : \A y \in hits : x.date >= y.date).close]

\* the first row of the ticker, whatever its date
get_price_any_date(rows, ticker, target_date) ==
    LET hits == {x \in rows : x.ticker = ticker}
    IN  IF hits = {} THEN [found |-> FALSE, close |-> 0]
        ELSE [found |-> TRUE,
              close |-> (CHOOSE x \in hits : \A y \in hits : x.date <= y.date).close]

\* SELECT close FROM prices WHERE ticker = ? AND date >= ?
\* ORDER BY date ASC LIMIT 1
get_price_on_or_after(rows, ticker, target_date) ==
    LET hits == {x \in rows : x.ticker = ticker /\ x.date >= target_date}
    IN  IF hits = {} THEN [found |-> FALSE, close |-> 0]
        ELSE [found |-> TRUE,
              close |-> (CHOOSE x \in hits : \A y \in hits : x.date <= y.date).close]

HoldCorrectExclusive(ret) == -HoldBand < ret /\ ret < HoldBand

\* correct = -5.0 <= ret <= 5.0
HoldCorrect(ret) == -HoldBand <= ret /\ ret <= HoldBand

\* The body of the loop of get_analysis_history for one row d.
ScoreRecord(d, rows, day) ==
    LET target_date == d.run_date + Horizon
        entry_price == SignalsGet(d.signals, "current_price")
        pending     == [id |-> d.id, run_date |-> d.run_date, ticker |-> d.ticker,
                        recommendation |-> d.recommendation,
                        outcome |-> "pending", has_return |-> FALSE,
                        outcome_return_pct |-> 0]
    IN  IF ~entry_price.found \/ entry_price.value = 0 \/ target_date > day
        THEN pending
        ELSE LET exit_price == get_price_on_or_after(rows, d.ticker, target_date)
             IN  IF ~exit_price.found THEN pending
                 ELSE LET ret == RoundHalfEven(
                                     10000 * (exit_price.close - entry_price.value),
                                     entry_price.value, 1)
                          correct == IF d.recommendation = "BUY" THEN ret > 0
                                     ELSE IF d.recommendation = "SELL" THEN ret < 0
                                     ELSE HoldCorrect(ret)
                      IN  [pending EXCEPT
                              !.outcome = IF correct THEN "correct" ELSE "incorrect",
                              !.has_return = TRUE,
                              !.outcome_return_pct = ret]

\* ORDER BY run_date DESC LIMIT ? (rows of one run_date in id order)
RECURSIVE NewestFirst(_)
NewestFirst(rows) ==
    IF rows = {} THEN <<>>
    ELSE LET first == CHOOSE a \in rows : \A b \in rows \ {a} :
                          \/ a.run_date > b.run_date
                          \/ (a.run_date = b.run_date /\ a.id < b.id)
         IN  <<first>> \o NewestFirst(rows \ {first})

GetAnalysisHistory(ticker, limit) ==
    LET rows == NewestFirst({a \in analyses : a.ticker = ticker})
        kept == SubSeq(rows, 1, IF Len(rows) < limit THEN Len(rows) ELSE limit)
    IN  [i \in 1..Len(kept) |-> ScoreRecord(kept[i], prices, today)]

\* a scorer that stores the outcome in the row it scored
get_analysis_history_storing(ticker) ==
    LET result == GetAnalysisHistory(ticker, HistoryLimit)
    IN  /\ lastOp' = [NoOp EXCEPT !.op = "get_analysis_history",
                                  !.ticker = ticker,
                                  !.result = {result[i] : i \in 1..Len(result)},
                                  !.again = /\ lastOp.op = "get_analysis_history"
                                            /\ lastOp.ticker = ticker]
        /\ analyses' = {[a EXCEPT !.reasoning =
                            IF a.ticker = ticker
                            THEN ScoreRecord(a, prices, today).outcome
                            ELSE @] : a \in analyses}
        /\ UNCHANGED <<trades, holdings, cash, nextId, cash0, prices,
                       nextAnalysisId, today, inFlight>>

\* again: the call before this one was the same call
get_analysis_history(ticker) ==
    LET result == GetAnalysisHistory(ticker, HistoryLimit)
    IN  /\ lastOp' = [NoOp EXCEPT !.op = "get_analysis_history",
                                  !.ticker = ticker,
                                  !.result = {result[i] : i \in 1..Len(result)},
                                  !.again = /\ lastOp.op = "get_analysis_history"
                                            /\ lastOp.ticker = ticker]
        /\ UNCHANGED <<trades, holdings, cash, nextId, cash0, analyses, prices,
                       nextAnalysisId, today, inFlight>>

\* The calendar moves on.
next_day(day) ==
    /\ day > today
    /\ today' = day
    /\ lastOp' = [NoOp EXCEPT !.op = "next_day"]
    /\ UNCHANGED <<trades, holdings, cash, nextId, cash0, analyses, prices,
                   nextAnalysisId, inFlight>>

ScorerDays == {1, 15, 16}
RunDates == {1, 2}
PriceDates == {15, 17}
\* entry 30000: -5 percent, +0.0033 percent, +5 percent, +5.0067 percent
Closes == {28500, 30001, 31500, 31502}
\* <<recommendation, signals>> of a saved analysis
AnalysisShapes ==
    {<<"BUY", {<<"current_price", 30000>>}>>,
     <<"SELL", {<<"current_price", 30000>>}>>,
     <<"HOLD", {<<"current_price", 30000>>}>>,
     <<"BUY", {}>>,
     <<"SELL", {<<"current_price", 0>>}>>}

NextScorer ==
    \/ \E run_date \in RunDates, ticker \in LedgerTickers, shape \in AnalysisShapes :
            save_analysis(run_date, ticker, shape[2], shape[1], "", {})
    \/ \E ticker \in LedgerTickers, shape \in AnalysisShapes :
            run_analysis(ticker, shape[2], shape[1])
    \/ \E ticker \in LedgerTickers, date \in PriceDates, close \in Closes :
            upsert_prices(ticker, <<[date |-> date, close |-> close]>>)
    \/ \E ticker \in LedgerTickers :
            get_analysis_history(ticker)
    \/ \E day \in ScorerDays :
            next_day(day)

SpecScorer == Init /\ [][NextScorer]_vars

----------------------------------------------------------------------------
\* Two owners.  uid is the value of _current_user_id in the request: the
\* user_id of the session AuthMiddleware found for it.

\* set_cash: set_setting("cash_balance", str(round(amount, 2)))
set_cash(uid, amount) ==
    Commit([Db EXCEPT !.cash[uid] = RoundHalfEven(amount, 1, CentUnits)],
           [NoOp EXCEPT !.op = "set_cash", !.uid = uid, !.price = amount])

\* SELECT * FROM trades WHERE user_id = ?
GetTrades(db, uid) == {t \in db.trades : t.user_id = uid}

\* SELECT * FROM holdings WHERE user_id = ?
GetHoldings(db, uid) == {h \in db.holdings : h.user_id = uid}

\* float(get_setting("cash_balance", "0"))
GetCash(db, uid) == db.cash[uid]

get_trades(uid) ==
    Commit(Db, [NoOp EXCEPT !.op = "get_trades", !.uid = uid,
                            !.result = GetTrades(Db, uid)])

get_holdings(uid) ==
    Commit(Db, [NoOp EXCEPT !.op = "get_holdings", !.uid = uid,
                            !.result = GetHoldings(Db, uid)])

get_cash(uid) ==
    Commit(Db, [NoOp EXCEPT !.op = "get_cash", !.uid = uid,
                            !.result = {[value |-> GetCash(Db, uid)]}])

MaxOwnerTrades == 2     \* add_trade is called while nextId <= MaxOwnerTrades

OwnerDates == {2}
OwnerShapes == {<<12500, 2>>}
\* <<shares, avg_cost>> given to upsert_holding
OwnerSeeds == {<<2, 12500>>}
OwnerCash == {25000}

NextOwners ==
    \/ \E uid \in Owners, ticker \in LedgerTickers, date \in OwnerDates,
          trade_type \in TradeTypes, shape \in OwnerShapes :
            /\ nextId <= MaxOwnerTrades
            /\ add_trade(uid, ticker, date, trade_type, shape[1], shape[2], 0)
    \/ \E uid \in Owners, trade_id \in 1..MaxTrades :
            delete_trade(uid, trade_id, 0)
    \/ \E uid \in Owners, ticker \in LedgerTickers :
            delete_ticker_trades(uid, ticker, 0)
    \/ \E uid \in Owners, ticker \in LedgerTickers, seed \in OwnerSeeds :
            upsert_holding(uid, ticker, seed[1], seed[2])
    \/ \E uid \in Owners, amount \in OwnerCash :
            set_cash(uid, amount)
    \/ \E uid \in Owners : get_trades(uid)
    \/ \E uid \in Owners : get_holdings(uid)
    \/ \E uid \in Owners : get_cash(uid)

SpecOwners == Init /\ [][NextOwners]_vars

----------------------------------------------------------------------------
\* Requests and calls with any values: TradeIn declares trade_type: str,
\* price: float and quantity: float, and add_trade takes what it is given.

\* <<trade_type, price, quantity>>: a valid BUY and SELL, a BUY of no
\* shares, a BUY at a negative price, a BUY of -1 share, a trade of no type
AnyTrades ==
    {<<"BUY", 20000, 1>>, <<"SELL", 20000, 1>>, <<"BUY", 20000, 0>>,
     <<"BUY", -20000, 1>>, <<"BUY", 20000, -1>>, <<"HOLD", 20000, 1>>}
AnyDates == {2}

NextUnchecked ==
    \/ \E uid \in LedgerUsers, ticker \in LedgerTickers, date \in AnyDates,
          t \in AnyTrades :
            add_trade(uid, ticker, date, t[1], t[2], t[3], 0)
    \/ \E uid \in LedgerUsers, ticker \in LedgerTickers, date \in AnyDates,
          t \in AnyTrades :
            create_trade(uid, ticker, date, t[1], t[2], t[3])
    \/ \E uid \in LedgerUsers, trade_id \in 1..MaxTrades :
            delete_trade(uid, trade_id, 0)

SpecUnchecked == Init /\ [][NextUnchecked]_vars

----------------------------------------------------------------------------
\* Requests running at the same time, statement by statement.  SQLite lets
\* one connection write at a time: the first INSERT, UPDATE or DELETE of a
\* block opens the transaction and takes the write lock, a statement of
\* another connection that needs the lock waits for it (the 5 s busy timeout
\* is not reached), and a SELECT made outside a transaction sees the
\* committed rows.

\* what a SELECT of a connection with no transaction sees, the uncommitted
\* rows included
ReadUncommitted(db, open) == IF open.writer # 0 THEN open.db ELSE db

\* what a SELECT of a connection with no transaction sees: committed rows
Committed(db, open) == db

SetReq(r, new) == reqs' = [reqs EXCEPT ![r] = new]

\* the request's handler has returned or raised
Finish(r, status) == SetReq(r, [reqs[r] EXCEPT !.pc = "done", !.status = status])

Release(r) == loop' = IF loop = r THEN 0 ELSE loop

\* create_trade up to its first write: the oversell check
create_trade_check(r) ==
    LET q    == reqs[r]
        held == HeldShares(Committed(Db, txn), q.uid, q.ticker)
    IN  /\ q.op = "create_trade" /\ q.pc = "check"
        /\ loop = 0
        /\ IF q.trade_type = "SELL" /\ Oversell(q.quantity, held)
           THEN Finish(r, "rejected") /\ UNCHANGED loop
           ELSE /\ SetReq(r, [q EXCEPT !.pc = IF <<q.uid, q.ticker>> \in active
                                              THEN "insert" ELSE "activate"])
                /\ loop' = r
        /\ UNCHANGED <<trades, holdings, cash, nextId, lastOp, cash0, analyses,
                       prices, nextAnalysisId, today, txn, active, db0>>

\* add_active_ticker, then await refresh_ticker: the coroutine is suspended
\* while fetch_polygon waits for the network, or goes on at once when
\* refresh_ticker returns or raises before that
create_trade_activate(r, suspended) ==
    LET q == reqs[r]
    IN  /\ q.op = "create_trade" /\ q.pc = "activate"
        /\ txn.writer = 0
        /\ active' = active \cup {<<q.uid, q.ticker>>}
        /\ SetReq(r, [q EXCEPT !.pc = IF suspended THEN "await" ELSE "insert"])
        /\ loop' = IF suspended THEN 0 ELSE r
        /\ UNCHANGED <<trades, holdings, cash, nextId, lastOp, cash0, analyses,
                       prices, nextAnalysisId, today, txn, db0>>

\* refresh_ticker after fetch_polygon: upsert_prices of the rows fetched
create_trade_resume(r, fetched) ==
    LET q == reqs[r]
    IN  /\ q.op = "create_trade" /\ q.pc = "await"
        /\ loop = 0
        /\ txn.writer = 0
        /\ prices' = UpsertPriceRows(prices, q.ticker, fetched)
        /\ SetReq(r, [q EXCEPT !.pc = "insert"])
        /\ loop' = r
        /\ UNCHANGED <<trades, holdings, cash, nextId, lastOp, cash0, analyses,
                       nextAnalysisId, today, txn, active, db0>>

\* add_trade: INSERT INTO trades
add_trade_insert(r) ==
    LET q == reqs[r]
    IN  /\ q.op = "create_trade" /\ q.pc = "insert"
        /\ txn.writer = 0
        /\ txn' = [writer |-> r,
                   db |-> InsertTrade(Db, q.uid, q.ticker, q.date, q.trade_type,
                                      q.price, q.quantity, "")]
        /\ SetReq(r, [q EXCEPT !.pc = "recompute", !.sign = 1])
        /\ UNCHANGED <<trades, holdings, cash, nextId, lastOp, cash0, analyses,
                       prices, nextAnalysisId, today, loop, active, db0>>

\* delete_trade: SELECT ... FROM trades WHERE id = ? AND user_id = ?
delete_trade_select(r) ==
    LET q    == reqs[r]
        rows == TradeRows(Committed(Db, txn), q.uid, q.id)
    IN  /\ q.op = "remove_trade" /\ q.pc = "select"
        /\ IF rows = {} THEN Finish(r, "ok")
           ELSE LET row == CHOOSE t \in rows : TRUE
                IN  SetReq(r, [q EXCEPT !.pc = "delete", !.ticker = row.ticker,
                                        !.trade_type = row.trade_type,
                                        !.price = row.price,
                                        !.quantity = row.quantity, !.sign = -1])
        /\ UNCHANGED <<trades, holdings, cash, nextId, lastOp, cash0, analyses,
                       prices, nextAnalysisId, today, txn, loop, active, db0>>

\* delete_trade: DELETE FROM trades WHERE id = ? AND user_id = ?
delete_trade_delete(r) ==
    LET q == reqs[r]
    IN  /\ q.op = "remove_trade" /\ q.pc = "delete"
        /\ txn.writer = 0
        /\ txn' = [writer |-> r,
                   db |-> [Db EXCEPT !.trades = @ \ TradeRows(Db, q.uid, q.id)]]
        /\ SetReq(r, [q EXCEPT !.pc = "recompute"])
        /\ UNCHANGED <<trades, holdings, cash, nextId, lastOp, cash0, analyses,
                       prices, nextAnalysisId, today, loop, active, db0>>

\* _recompute_holding(conn, ticker) inside add_trade and delete_trade; an
\* error leaves the with block, which rolls back
recompute_holding_step(r) ==
    LET q == reqs[r]
    IN  /\ q.pc = "recompute" /\ txn.writer = r
        /\ IF RecomputeRaises(txn.db, q.uid, q.ticker)
           THEN /\ txn' = NoTxn
                /\ Finish(r, "raised")
                /\ Release(r)
           ELSE /\ txn' = [txn EXCEPT !.db = _recompute_holding(@, q.uid, q.ticker)]
                /\ SetReq(r, [q EXCEPT !.pc = "adjust"])
                /\ UNCHANGED loop
        /\ UNCHANGED <<trades, holdings, cash, nextId, lastOp, cash0, analyses,
                       prices, nextAnalysisId, today, active, db0>>

\* _adjust_cash(conn, trade_type, price, quantity, sign) with the values of
\* the request (add_trade) or of the row read at the start (delete_trade)
adjust_cash_step(r) ==
    LET q == reqs[r]
    IN  /\ q.pc = "adjust" /\ txn.writer = r
        /\ txn' = [txn EXCEPT !.db = _adjust_cash(@, q.uid, q.trade_type, q.price,
                                                   q.quantity, q.sign)]
        /\ SetReq(r, [q EXCEPT !.pc = "commit"])
        /\ UNCHANGED <<trades, holdings, cash, nextId, lastOp, cash0, analyses,
                       prices, nextAnalysisId, today, loop, active, db0>>

\* the end of the with block: COMMIT
commit_step(r) ==
    /\ reqs[r].pc = "commit" /\ txn.writer = r
    /\ trades' = txn.db.trades
    /\ holdings' = txn.db.holdings
    /\ cash' = txn.db.cash
    /\ nextId' = txn.db.nextId
    /\ txn' = NoTxn
    /\ Finish(r, "ok")
    /\ Release(r)
    /\ UNCHANGED <<lastOp, cash0, analyses, prices, nextAnalysisId, today,
                   active, db0>>

\* delete_ticker_trades: SELECT trade_type, price, quantity FROM trades
delete_ticker_trades_select(r) ==
    LET q == reqs[r]
    IN  /\ q.op = "remove_holding" /\ q.pc = "select"
        /\ SetReq(r, [q EXCEPT !.pc = "delete",
                      !.rows = RowsById(TradesOf(Committed(Db, txn), q.uid, q.ticker))])
        /\ UNCHANGED <<trades, holdings, cash, nextId, lastOp, cash0, analyses,
                       prices, nextAnalysisId, today, txn, loop, active, db0>>

\* delete_ticker_trades: DELETE FROM trades WHERE user_id = ? AND ticker = ?
delete_ticker_trades_delete(r) ==
    LET q == reqs[r]
    IN  /\ q.op = "remove_holding" /\ q.pc = "delete"
        /\ txn.writer = 0
        /\ txn' = [writer |-> r,
                   db |-> [Db EXCEPT !.trades = @ \ TradesOf(Db, q.uid, q.ticker)]]
        /\ SetReq(r, [q EXCEPT !.pc = "holding"])
        /\ UNCHANGED <<trades, holdings, cash, nextId, lastOp, cash0, analyses,
                       prices, nextAnalysisId, today, loop, active, db0>>

\* delete_ticker_trades: DELETE FROM holdings WHERE user_id = ? AND ticker = ?
delete_ticker_trades_holding(r) ==
    LET q == reqs[r]
    IN  /\ q.pc = "holding" /\ txn.writer = r
        /\ txn' = [txn EXCEPT !.db = DeleteHoldingRow(@, q.uid, q.ticker)]
        /\ SetReq(r, [q EXCEPT !.pc = "reverse"])
        /\ UNCHANGED <<trades, holdings, cash, nextId, lastOp, cash0, analyses,
                       prices, nextAnalysisId, today, loop, active, db0>>

\* delete_ticker_trades: for t in trades: _adjust_cash(..., sign=-1)
delete_ticker_trades_cash(r) ==
    LET q == reqs[r]
    IN  /\ q.pc = "reverse" /\ txn.writer = r
        /\ txn' = [txn EXCEPT !.db = ReverseCash(@, q.uid, q.rows)]
        /\ SetReq(r, [q EXCEPT !.pc = "commit"])
        /\ UNCHANGED <<trades, holdings, cash, nextId, lastOp, cash0, analyses,
                       prices, nextAnalysisId, today, loop, active, db0>>

\* update_cash: the checks and current = cache.get_cash()
update_cash_read(r) ==
    LET q == reqs[r]
    IN  /\ q.op = "update_cash" /\ q.pc = "read"
        /\ IF q.amount < 0 THEN Finish(r, "rejected")
           ELSE SetReq(r, [q EXCEPT !.pc = "set",
                           !.current = GetCash(Committed(Db, txn), q.uid)])
        /\ UNCHANGED <<trades, holdings, cash, nextId, lastOp, cash0, analyses,
                       prices, nextAnalysisId, today, txn, loop, active, db0>>

\* update_cash: cache.set_cash(amount | current + amount | current - amount)
update_cash_set(r) ==
    LET q == reqs[r]
    IN  /\ q.op = "update_cash" /\ q.pc = "set"
        /\ IF q.action \notin {"set", "deposit", "withdraw"}
           THEN Finish(r, "rejected") /\ UNCHANGED cash
           ELSE /\ txn.writer = 0
                /\ cash' = [cash EXCEPT ![q.uid] =
                              RoundHalfEven(IF q.action = "set" THEN q.amount
                                            ELSE IF q.action = "deposit"
                                            THEN q.current + q.amount
                                            ELSE q.current - q.amount,
                                            1, CentUnits)]
                /\ SetReq(r, [q EXCEPT !.pc = "reply"])
        /\ UNCHANGED <<trades, holdings, nextId, lastOp, cash0, analyses,
                       prices, nextAnalysisId, today, txn, loop, active, db0>>

\* update_cash: return {"balance": cache.get_cash()}
update_cash_reply(r) ==
    LET q == reqs[r]
    IN  /\ q.op = "update_cash" /\ q.pc = "reply"
        /\ SetReq(r, [q EXCEPT !.pc = "done",
                      !.result = {[value |-> GetCash(Committed(Db, txn), q.uid)]}])
        /\ UNCHANGED <<trades, holdings, cash, nextId, lastOp, cash0, analyses,
                       prices, nextAnalysisId, today, txn, loop, active, db0>>

\* list_trades, get_portfolio's get_holdings and get_cash: one SELECT each.
\* during: a write transaction was open when the SELECT ran.
read_step(r) ==
    LET q    == reqs[r]
        seen == Committed(Db, txn)
    IN  /\ q.op \in {"get_trades", "get_holdings", "get_cash"} /\ q.pc = "read"
        /\ SetReq(r, [q EXCEPT !.pc = "done", !.during = txn.writer # 0,
                      !.result = IF q.op = "get_trades" THEN GetTrades(seen, q.uid)
                                 ELSE IF q.op = "get_holdings"
                                 THEN GetHoldings(seen, q.uid)
                                 ELSE {[value |-> GetCash(seen, q.uid)]}])
        /\ UNCHANGED <<trades, holdings, cash, nextId, lastOp, cash0, analyses,
                       prices, nextAnalysisId, today, txn, loop, active, db0>>

\* The requests issued together, and the ledgers they are issued on.
ConcShares == {2}
ConcCosts == {20000}
ConcCash == {100000}
\* <<ticker, quantity>> of a SELL at 0.30 dollar
ConcSells == {<<"MARA", 1>>, <<"MARA", 2>>, <<"IREN", 1>>, <<"IREN", 2>>}
ConcAmounts == {10000}
\* rows refresh_ticker may have fetched
FetchedRows == {<<>>, <<[date |-> 4, close |-> 30000]>>}

Request(op, pc) == [NoRequest EXCEPT !.op = op, !.pc = pc, !.uid = "u1"]

RequestMenu ==
    {[Request("create_trade", "check") EXCEPT
         !.ticker = s[1], !.date = 4, !.trade_type = "SELL",
         !.price = 30000, !.quantity = s[2]] : s \in ConcSells}
    \cup {[Request("create_trade", "check") EXCEPT
              !.ticker = "MARA", !.date = 4, !.trade_type = "BUY",
              !.price = 30000, !.quantity = 1]}
    \cup {[Request("remove_trade", "select") EXCEPT !.id = i] : i \in 1..2}
    \cup {[Request("remove_holding", "select") EXCEPT !.ticker = "MARA"]}
    \cup {[Request("update_cash", "read") EXCEPT !.action = a, !.amount = m] :
              a \in {"deposit", "withdraw"}, m \in ConcAmounts}
    \cup {Request(op, "read") : op \in {"get_trades", "get_holdings", "get_cash"}}

EmptyLedger(c) ==
    [trades |-> {}, holdings |-> {},
     cash |-> [u \in Owners |-> IF u \in LedgerUsers THEN c ELSE 0], nextId |-> 1]

\* a BUY of 2 at 0.20 and a SELL of 1 at 0.30, recorded one after the other;
\* a position of 2 entered by hand, of an active ticker and of one that is not
InitialLedgers ==
    {AddTradeTxn(AddTradeTxn(EmptyLedger(c), "u1", "MARA", 2, "BUY", 20000, 2, 0),
                 "u1", "MARA", 2, "SELL", 30000, 1, 0) : c \in ConcCash}
    \cup {UpsertHoldingTxn(EmptyLedger(c), "u1", t, n, a) :
              c \in ConcCash, t \in {"MARA", "IREN"}, n \in ConcShares,
              a \in ConcCosts}

InitConcurrent ==
    /\ \E ledger \in InitialLedgers :
          /\ trades = ledger.trades
          /\ holdings = ledger.holdings
          /\ cash = ledger.cash
          /\ nextId = ledger.nextId
          /\ db0 = ledger
    /\ cash0 = cash
    /\ lastOp = NoOp
    /\ analyses = {}
    /\ prices = {}
    /\ nextAnalysisId = 1
    /\ today = FirstDay
    /\ \E a \in RequestMenu, b \in RequestMenu : reqs = <<a, b>>
    /\ txn = NoTxn
    /\ loop = 0
    /\ active = DefaultActive

NextConcurrent ==
    \/ \E r \in Requests : create_trade_check(r)
    \/ \E r \in Requests, suspended \in BOOLEAN : create_trade_activate(r, suspended)
    \/ \E r \in Requests, fetched \in FetchedRows : create_trade_resume(r, fetched)
    \/ \E r \in Requests : add_trade_insert(r)
    \/ \E r \in Requests : delete_trade_select(r)
    \/ \E r \in Requests : delete_trade_delete(r)
    \/ \E r \in Requests : recompute_holding_step(r)
    \/ \E r \in Requests : adjust_cash_step(r)
    \/ \E r \in Requests : commit_step(r)
    \/ \E r \in Requests : delete_ticker_trades_select(r)
    \/ \E r \in Requests : delete_ticker_trades_delete(r)
    \/ \E r \in Requests : delete_ticker_trades_holding(r)
    \/ \E r \in Requests : delete_ticker_trades_cash(r)
    \/ \E r \in Requests : update_cash_read(r)
    \/ \E r \in Requests : update_cash_set(r)
    \/ \E r \in Requests : update_cash_reply(r)
    \/ \E r \in Requests : read_step(r)

SpecConcurrent == InitConcurrent /\ [][NextConcurrent]_vars

\* The database a request leaves when it runs alone, from start to end.
Alone(q, db) ==
    IF q.op = "create_trade"
    THEN IF q.trade_type = "SELL"
            /\ Oversell(q.quantity, HeldShares(db, q.uid, q.ticker))
         THEN db
         ELSE AddTradeTxn(db, q.uid, q.ticker, q.date, q.trade_type, q.price,
                          q.quantity, 0)
    ELSE IF q.op = "remove_trade" THEN DeleteTradeTxn(db, q.uid, q.id, 0)
    ELSE IF q.op = "remove_holding" THEN DeleteTickerTradesTxn(db, q.uid, q.ticker, 0)
    ELSE IF q.op = "update_cash"
    THEN [db EXCEPT !.cash[q.uid] =
            RoundHalfEven(IF q.action = "deposit" THEN @ + q.amount
                          ELSE @ - q.amount, 1, CentUnits)]
    ELSE db

AllDone == \A r \in Requests : reqs[r].pc = "done"

\* The two databases that running the requests one after the other gives.
SerialResults ==
    {Alone(reqs[2], Alone(reqs[1], db0)), Alone(reqs[1], Alone(reqs[2], db0))}

----------------------------------------------------------------------------
\* The projection as section 4.1 of the specification states it, for the
\* claims below: the ledger order, the replay and the rounding to 4 decimals.

Earlier(a, b) == a.date < b.date \/ (a.date = b.date /\ a.id < b.id)

LedgerSeq(rows) ==
    [i \in 1..Cardinality(rows) |->
        CHOOSE t \in rows : Cardinality({u \in rows : Earlier(u, t)}) = i - 1]

\* The position after the first k trades of seq; avg_cost is num/den.
RECURSIVE Projected(_, _)
Projected(seq, k) ==
    IF k = 0 THEN [shares |-> 0, num |-> 0, den |-> 1]
    ELSE LET p == Projected(seq, k - 1)
             t == seq[k]
         IN  IF t.trade_type = "BUY"
             THEN [shares |-> p.shares + t.quantity,
                   num |-> p.shares * p.num + t.quantity * t.price * p.den,
                   den |-> p.den * (p.shares + t.quantity)]
             ELSE [p EXCEPT !.shares = IF p.shares > t.quantity
                                       THEN p.shares - t.quantity ELSE 0]

Projection(uid, ticker) ==
    LET seq == LedgerSeq(TradesOf(Db, uid, ticker))
    IN  Projected(seq, Len(seq))

\* a is num/den rounded to 4 decimals (to the nearest; either way on a tie)
IsRounded(a, num, den) ==
    /\ a % AvgUnits = 0
    /\ 2 * Abs(a * den - num) <= AvgUnits * den

RECURSIVE SumQty(_)
SumQty(rows) ==
    IF rows = {} THEN 0
    ELSE LET t == CHOOSE x \in rows : TRUE
         IN  t.quantity + SumQty(rows \ {t})

RECURSIVE SumCost(_)
SumCost(rows) ==
    IF rows = {} THEN 0
    ELSE LET t == CHOOSE x \in rows : TRUE
         IN  t.price * t.quantity + SumCost(rows \ {t})

Buy(id, date, price, quantity) ==
    [id |-> id, user_id |-> "u1", ticker |-> "MARA", date |-> date,
     trade_type |-> "BUY", price |-> price, quantity |-> quantity, notes |-> ""]

Sell(id, date, price, quantity) ==
    [id |-> id, user_id |-> "u1", ticker |-> "MARA", date |-> date,
     trade_type |-> "SELL", price |-> price, quantity |-> quantity, notes |-> ""]

----------------------------------------------------------------------------
\* C1: from an empty ledger, after any sequence of add_trade, delete_trade
\* and delete_ticker_trades, the holdings row of every (owner, ticker) is the
\* replay of that owner's trades of the ticker in (date, id) order: no row
\* when the replayed shares are <= 0, otherwise the replayed shares and the
\* replayed avg_cost (rounded to 4 decimals).
C1_HoldingIsReplay ==
    \A uid \in Owners, ticker \in Tickers :
        LET p == Projection(uid, ticker)
        IN  IF p.shares <= 0
            THEN HoldingRows(Db, uid, ticker) = {}
            ELSE \E h \in holdings :
                    /\ HoldingRows(Db, uid, ticker) = {h}
                    /\ h.shares = p.shares
                    /\ IsRounded(h.avg_cost, p.num, p.den)

\* a holding projected from trades whose date order differs from their id
\* order, a SELL among them, after a delete_trade
C1_Witness ==
    /\ lastOp.op = "delete_trade"
    /\ lastOp.removed = 1
    /\ \E h \in holdings, a \in trades, b \in trades :
          /\ a.id < b.id /\ b.date < a.date
          /\ a.trade_type = "BUY" /\ b.trade_type = "SELL"
          /\ a.ticker = h.ticker /\ b.ticker = h.ticker

\* C3: a ledger made only of BUY trades projects to shares = the sum of the
\* quantities and avg_cost = sum(qty*price) / sum(qty); every BUY step of a
\* replay adds qty to the shares and moves avg_cost to
\* (shares*avg_cost + qty*price) / (shares + qty); BUY 10@100 then BUY 10@200
\* gives 20 shares at 150.
C3_BuyWeightedAverage ==
    /\ \A uid \in Owners, ticker \in Tickers :
          LET rows == TradesOf(Db, uid, ticker)
          IN  (rows # {} /\ \A t \in rows : t.trade_type = "BUY") =>
                \E h \in holdings :
                    /\ HoldingRows(Db, uid, ticker) = {h}
                    /\ h.shares = SumQty(rows)
                    /\ IsRounded(h.avg_cost, SumCost(rows), SumQty(rows))
    /\ \A uid \in Owners, ticker \in Tickers :
          LET seq == SortedRows(TradesOf(Db, uid, ticker))
          IN  \A k \in 1..Len(seq) :
                LET before == Replay(SubSeq(seq, 1, k - 1))
                    after  == Replay(SubSeq(seq, 1, k))
                    t      == seq[k]
                IN  t.trade_type = "BUY" =>
                      /\ after.shares = before.shares + t.quantity
                      /\ after.n * before.d * after.shares
                            = after.d * (before.shares * before.n
                                         + t.quantity * t.price * before.d)
    /\ LET pos == Replay(<<Buy(1, 1, 10000000, 10), Buy(2, 2, 20000000, 10)>>)
       IN  pos.shares = 20 /\ pos.n = 15000000 * pos.d

\* two BUY trades at different prices and nothing else
C3_Witness ==
    \E a \in trades, b \in trades :
        /\ a.price # b.price
        /\ TradesOf(Db, a.user_id, a.ticker) = {a, b}
        /\ a.trade_type = "BUY" /\ b.trade_type = "BUY"
        /\ HoldingRows(Db, a.user_id, a.ticker) # {}

\* C4 as claimed: adding a SELL to a ticker that has a Holding never changes
\* the Holding's avg_cost, whatever the SELL's quantity and date, as long as
\* a Holding row remains.
C4_SellKeepsAvgCost ==
    ( /\ lastOp.op = "add_trade" /\ lastOp.status = "ok"
      /\ lastOp.trade_type = "SELL"
      /\ lastOp.had_holding
      /\ HoldingRows(Db, lastOp.uid, lastOp.ticker) # {} )
    => HeldAvg(Db, lastOp.uid, lastOp.ticker) = lastOp.avg_before

\* C4 as amended: in a ledger built by add_trade, delete_trade and
\* delete_ticker_trades, adding a SELL dated on or after every BUY of the
\* ticker never changes the Holding's avg_cost, as long as a Holding row
\* remains.
C4_LaterSellKeepsAvgCost ==
    ( /\ lastOp.op = "add_trade" /\ lastOp.status = "ok"
      /\ lastOp.trade_type = "SELL"
      /\ lastOp.had_holding
      /\ HoldingRows(Db, lastOp.uid, lastOp.ticker) # {}
      /\ \A b \in TradesOf(Db, lastOp.uid, lastOp.ticker) :
            b.trade_type = "BUY" => b.date <= lastOp.date )
    => HeldAvg(Db, lastOp.uid, lastOp.ticker) = lastOp.avg_before

\* a SELL of part of a position built from two BUYs at different prices,
\* dated after both
C4_Witness ==
    /\ lastOp.op = "add_trade" /\ lastOp.status = "ok"
    /\ lastOp.trade_type = "SELL"
    /\ lastOp.had_holding
    /\ HoldingRows(Db, lastOp.uid, lastOp.ticker) # {}
    /\ \E a \in trades, b \in trades :
          /\ a.trade_type = "BUY" /\ b.trade_type = "BUY"
          /\ a.price # b.price
          /\ a.ticker = lastOp.ticker /\ b.ticker = lastOp.ticker
          /\ a.date <= lastOp.date /\ b.date <= lastOp.date

\* C5: at no step of a replay is the running share count negative, a SELL of
\* more than the shares held at its step leaves exactly 0, and a ticker whose
\* replay ends at 0 shares has no Holding row (BUY 5 then SELL 10: 0 shares).
C5_SharesNeverNegative ==
    /\ \A uid \in Owners, ticker \in Tickers :
          LET seq == SortedRows(TradesOf(Db, uid, ticker))
          IN  /\ \A k \in 1..Len(seq) :
                    LET before == Replay(SubSeq(seq, 1, k - 1))
                        after  == Replay(SubSeq(seq, 1, k))
                    IN  /\ after.shares >= 0
                        /\ (seq[k].trade_type = "SELL"
                               /\ seq[k].quantity > before.shares)
                              => after.shares = 0
              /\ Replay(seq).shares = 0 => HoldingRows(Db, uid, ticker) = {}
    /\ Replay(<<Buy(1, 1, 10000000, 5), Sell(2, 2, 10000000, 10)>>).shares = 0

\* a SELL of 2 replayed against 1 share held: the clamp is exercised
C5_Witness ==
    \E uid \in Owners, ticker \in Tickers :
        LET seq == SortedRows(TradesOf(Db, uid, ticker))
        IN  /\ HoldingRows(Db, uid, ticker) = {}
            /\ \E k \in 1..Len(seq) :
                  /\ seq[k].trade_type = "SELL"
                  /\ Replay(SubSeq(seq, 1, k - 1)).shares > 0
                  /\ seq[k].quantity > Replay(SubSeq(seq, 1, k - 1)).shares

\* C6 as claimed: add_trade followed immediately by delete_trade of the same
\* trade leaves the owner's cash balance exactly where it was before the add.
C6_CashRoundTrip ==
    (lastOp.op = "delete_trade" /\ lastOp.round_trip)
        => cash[lastOp.uid] = lastOp.cash_origin

\* C7 as claimed: the cash balance is the starting balance plus price*quantity
\* of the SELL trades in the ledger minus price*quantity of the BUY trades in
\* the ledger that add_trade put there (the auto-migrated BUY never moved
\* cash), and is the starting balance again whenever the ledger is empty.
C7_CashFollowsLedger ==
    \A uid \in Owners :
        LET mine  == {t \in trades : t.user_id = uid}
            sells == {t \in mine : t.trade_type = "SELL"}
            buys  == {t \in mine : t.trade_type = "BUY" /\ t.notes # AutoMigratedNote}
        IN  /\ cash[uid] = cash0[uid] + SumCost(sells) - SumCost(buys)
            /\ mine = {} => cash[uid] = cash0[uid]

\* C8 as claimed: delete_ticker_trades(ticker) leaves no trade and no holding
\* of that (owner, ticker), moves the owner's cash by +price*quantity of every
\* BUY removed and -price*quantity of every SELL removed, and changes no
\* trade or holding of another ticker.
C8_PositionClose ==
    [][ (lastOp'.op = "delete_ticker_trades" /\ lastOp'.status = "ok") =>
          LET uid    == lastOp'.uid
              ticker == lastOp'.ticker
              gone   == TradesOf(Db, uid, ticker)
              buys   == {t \in gone : t.trade_type = "BUY"}
              sells  == {t \in gone : t.trade_type = "SELL"}
          IN  /\ ~ \E t \in trades' : t.user_id = uid /\ t.ticker = ticker
              /\ ~ \E h \in holdings' : h.user_id = uid /\ h.ticker = ticker
              /\ cash'[uid] = cash[uid] + SumCost(buys) - SumCost(sells)
              /\ trades' = trades \ gone
              /\ holdings' = holdings \ HoldingRows(Db, uid, ticker)
      ]_vars

\* C9: an add_trade, delete_trade or delete_ticker_trades that fails after
\* its first write leaves trades, holdings and cash as they were before it.
C9_AllOrNothing ==
    [][ lastOp'.status = "failed" =>
          /\ trades' = trades
          /\ holdings' = holdings
          /\ cash' = cash
      ]_vars

\* a delete_ticker_trades that failed after deleting the trades and the
\* holding of a position: the rows are all still there
C9_Witness ==
    /\ lastOp.op = "delete_ticker_trades"
    /\ lastOp.status = "failed"
    /\ lastOp.failAt = 2
    /\ lastOp.removed > 0
    /\ HoldingRows(Db, lastOp.uid, lastOp.ticker) # {}
    /\ TradesOf(Db, lastOp.uid, lastOp.ticker) # {}

\* C2 as claimed: whatever add_trade, delete_trade, delete_ticker_trades and
\* the upsert_holding of POST /api/portfolio have done, no holdings row has
\* shares <= 0.
C2_NoEmptyHolding == \A h \in holdings : h.shares > 0

\* C10: a create_trade of type SELL for more shares than the owner holds of
\* the ticker (0 without a Holding) is rejected, the error names the
\* requested quantity, the ticker and the held quantity, and trades, holdings
\* and cash stay as they were.
C10_OversellRejected ==
    [][ ( /\ lastOp'.op = "create_trade"
          /\ lastOp'.trade_type = "SELL"
          /\ lastOp'.quantity > HeldShares(Db, lastOp'.uid, lastOp'.ticker) )
        => /\ lastOp'.status = "rejected"
           /\ lastOp'.detail = <<lastOp'.quantity, lastOp'.ticker,
                                 HeldShares(Db, lastOp'.uid, lastOp'.ticker)>>
           /\ trades' = trades
           /\ holdings' = holdings
           /\ cash' = cash
      ]_vars

\* a SELL of 2 rejected against a position of 1 share
C10_Witness ==
    /\ lastOp.op = "create_trade"
    /\ lastOp.status = "rejected"
    /\ lastOp.trade_type = "SELL"
    /\ lastOp.held_before > 0
    /\ lastOp.quantity > lastOp.held_before
    /\ lastOp.detail = <<lastOp.quantity, lastOp.ticker, lastOp.held_before>>
    /\ HeldShares(Db, lastOp.uid, lastOp.ticker) = lastOp.held_before

----------------------------------------------------------------------------
\* Legacy migration

IsSynthetic(t) == t.trade_type = "BUY" /\ t.notes = AutoMigratedNote

\* C11: with a Holding of S > 0 shares at avg_cost A and no Trade row for the
\* (owner, ticker), one projector run inserts exactly one trade, a synthetic
\* BUY of quantity S at price A; a second projector run, made on the state
\* the first one left, inserts no trade and leaves the Holding unchanged.
C11_MigrationFiresOnce ==
    [][ \A uid \in Owners, ticker \in Tickers :
          ( /\ lastOp'.op = "_recompute_holding"
            /\ lastOp'.uid = uid /\ lastOp'.ticker = ticker )
          =>
          /\ ( /\ TradesOf(Db, uid, ticker) = {}
               /\ HeldShares(Db, uid, ticker) > 0 )
             => \E t \in trades' :
                   /\ trades' = trades \cup {t}
                   /\ t \notin trades
                   /\ IsSynthetic(t)
                   /\ t.user_id = uid /\ t.ticker = ticker
                   /\ t.quantity = HeldShares(Db, uid, ticker)
                   /\ t.price = HeldAvg(Db, uid, ticker)
          /\ ( /\ lastOp.op = "_recompute_holding"
               /\ lastOp.uid = uid /\ lastOp.ticker = ticker )
             => (trades' = trades /\ holdings' = holdings)
      ]_vars

\* the second of two projector runs on a seeded holding: the synthetic BUY of
\* the first run is the ticker's only trade
C11_Witness ==
    /\ lastOp.op = "_recompute_holding"
    /\ lastOp.had_holding
    /\ \E t \in trades :
          /\ IsSynthetic(t)
          /\ TradesOf(Db, lastOp.uid, lastOp.ticker) = {t}
          /\ t.price = 12504
          /\ t.quantity = lastOp.held_before
          /\ lastOp.avg_before = 12500
          /\ HeldAvg(Db, lastOp.uid, lastOp.ticker) = 12500

\* C12: once the ledger of an (owner, ticker) holds a synthetic 'initial
\* position' BUY, so that a synthesis has happened, no add_trade or
\* delete_trade inserts another one.
C12_MigrationAtMostOnce ==
    [][ \A uid \in Owners, ticker \in Tickers :
          (\E t \in TradesOf(Db, uid, ticker) : IsSynthetic(t))
          => ~ \E t \in trades' \ trades :
                  IsSynthetic(t) /\ t.user_id = uid /\ t.ticker = ticker
      ]_vars

\* C20: add_trade on an (owner, ticker) that has a Holding of S > 0 shares at
\* avg_cost A and no BUY row leaves a synthetic BUY of S at A in the ledger
\* and a Holding of S + q shares after a BUY of q, of max(0, S - q) shares
\* (no row at 0) after a SELL of q.
C20_SeededSharesCounted ==
    [][ \A uid \in Owners, ticker \in Tickers :
          ( /\ lastOp'.op = "add_trade" /\ lastOp'.status = "ok"
            /\ lastOp'.uid = uid /\ lastOp'.ticker = ticker
            /\ HeldShares(Db, uid, ticker) > 0
            /\ ~ \E t \in TradesOf(Db, uid, ticker) : t.trade_type = "BUY" )
          =>
          LET S == HeldShares(Db, uid, ticker)
              A == HeldAvg(Db, uid, ticker)
              q == lastOp'.quantity
              held == IF \E h \in holdings' : h.user_id = uid /\ h.ticker = ticker
                      THEN (CHOOSE h \in holdings' :
                               h.user_id = uid /\ h.ticker = ticker).shares
                      ELSE 0
          IN  /\ \E t \in trades' :
                    /\ IsSynthetic(t) /\ t.user_id = uid /\ t.ticker = ticker
                    /\ t.quantity = S /\ t.price = A
              /\ lastOp'.trade_type = "BUY" => held = S + q
              /\ lastOp'.trade_type = "SELL" =>
                    held = (IF S - q > 0 THEN S - q ELSE 0)
      ]_vars

----------------------------------------------------------------------------
\* Outcome scorer

Scored == IF lastOp.op = "get_analysis_history" THEN lastOp.result ELSE {}

\* C13: every record get_analysis_history returns has outcome pending,
\* correct or incorrect; a scored (non-pending) record carries a return_pct,
\* and it is correct exactly when return_pct > 0 for BUY, return_pct < 0 for
\* SELL, -5.0 <= return_pct <= 5.0 for HOLD, incorrect otherwise.
C13_OutcomeClassification ==
    \A x \in Scored :
        /\ x.outcome \in {"pending", "correct", "incorrect"}
        /\ x.outcome # "pending" =>
              /\ x.has_return
              /\ x.recommendation = "BUY" =>
                    (x.outcome = "correct" <=> x.outcome_return_pct > 0)
              /\ x.recommendation = "SELL" =>
                    (x.outcome = "correct" <=> x.outcome_return_pct < 0)
              /\ x.recommendation = "HOLD" =>
                    (x.outcome = "correct" <=>
                        (-500 <= x.outcome_return_pct /\ x.outcome_return_pct <= 500))

\* one call returning a HOLD scored correct at exactly +5.00 percent and a
\* BUY scored incorrect at 0.00 percent
C13_Witness ==
    /\ \E x \in Scored :
          /\ x.recommendation = "HOLD" /\ x.outcome = "correct"
          /\ x.outcome_return_pct = 500
    /\ \E x \in Scored :
          /\ x.recommendation = "BUY" /\ x.outcome = "incorrect"
          /\ x.outcome_return_pct = 0

\* C14: get_analysis_history does not raise, and returns outcome pending
\* with no return for every record of the ticker whose signals have no
\* current_price or a zero one, or whose run_date + 14 days is after today,
\* or for which prices has no row of the ticker dated on or after
\* run_date + 14 days, whatever the recommendation.
C14_PendingNotError ==
    lastOp.op = "get_analysis_history" =>
        /\ lastOp.status = "ok"
        /\ \A a \in analyses :
              ( /\ a.ticker = lastOp.ticker
                /\ \/ ~ \E kv \in a.signals : kv[1] = "current_price"
                   \/ \E kv \in a.signals : kv[1] = "current_price" /\ kv[2] = 0
                   \/ a.run_date + 14 > today
                   \/ ~ \E p \in prices :
                          p.ticker = a.ticker /\ p.date >= a.run_date + 14 )
              => \E x \in Scored :
                    /\ x.id = a.id
                    /\ x.outcome = "pending"
                    /\ ~x.has_return

\* a record with a price whose horizon has passed, pending because the only
\* price row is dated before run_date + 14; and one without current_price
C14_Witness ==
    /\ \E a \in analyses, x \in Scored :
          /\ x.id = a.id /\ x.outcome = "pending"
          /\ \E kv \in a.signals : kv[1] = "current_price" /\ kv[2] > 0
          /\ a.run_date + 14 <= today
          /\ \E p \in prices : p.ticker = a.ticker /\ p.date < a.run_date + 14
    /\ \E a \in analyses, x \in Scored :
          /\ x.id = a.id /\ x.outcome = "pending"
          /\ a.signals = {}
          /\ a.run_date + 14 <= today
          /\ \E p \in prices : p.ticker = a.ticker /\ p.date >= a.run_date + 14

\* C15: across upsert_prices calls and advances of today, the outcome of a
\* record changes only from pending to correct or from pending to
\* incorrect.
C15_OutcomeMonotone ==
    [][ \A a \in analyses :
          LET before == ScoreRecord(a, prices, today).outcome
              after  == ScoreRecord(a, prices', today').outcome
          IN  before # "pending" => after = before
      ]_vars

\* C17: no step changes or removes a row of analyses, and every
\* save_analysis call adds exactly one row to it.
C17_AppendOnly ==
    [][ /\ analyses \subseteq analyses'
        /\ lastOp'.op = "save_analysis" =>
              \E a \in analyses' :
                  a \notin analyses /\ analyses' = analyses \cup {a}
      ]_vars

----------------------------------------------------------------------------
\* Owner isolation

\* C16: add_trade, delete_trade, delete_ticker_trades, upsert_holding and
\* set_cash run for owner A leave the trades, holdings and cash balance of
\* every other owner unchanged; delete_trade of a trade id of another owner
\* changes nothing at all; get_trades, get_holdings and get_cash run for A
\* return the rows and the balance of A and nothing else.
C16_OwnerIsolation ==
    [][ /\ \A B \in Owners :
              B # lastOp'.uid =>
                 /\ {t \in trades' : t.user_id = B} = {t \in trades : t.user_id = B}
                 /\ {h \in holdings' : h.user_id = B}
                       = {h \in holdings : h.user_id = B}
                 /\ cash'[B] = cash[B]
        /\ ( /\ lastOp'.op = "delete_trade"
             /\ \E t \in trades : t.id = lastOp'.id /\ t.user_id # lastOp'.uid )
           => (trades' = trades /\ holdings' = holdings /\ cash' = cash)
        /\ lastOp'.op = "get_trades" =>
              lastOp'.result = {t \in trades : t.user_id = lastOp'.uid}
        /\ lastOp'.op = "get_holdings" =>
              lastOp'.result = {h \in holdings : h.user_id = lastOp'.uid}
        /\ lastOp'.op = "get_cash" =>
              lastOp'.result = {[value |-> cash[lastOp'.uid]]}
      ]_vars

\* owner u1 has called delete_trade with the id of a trade of u2, while both
\* owners have trades and a holding of the same ticker
C16_Witness ==
    /\ lastOp.op = "delete_trade" /\ lastOp.uid = "u1"
    /\ \E t \in trades : t.id = lastOp.id /\ t.user_id = "u2"
    /\ \E t \in trades, h \in holdings :
          t.user_id = "u1" /\ h.user_id = "u1"
    /\ \E h \in holdings : h.user_id = "u2"
    /\ cash["u1"] # cash["u2"]

----------------------------------------------------------------------------
\* Input values

\* C18: whatever trade_type, price and quantity add_trade is called with,
\* and after every delete_trade, _recompute_holding completes without an
\* error and the operation commits.
C18_ProjectorNeverRaises ==
    lastOp.op \in {"add_trade", "delete_trade"} => lastOp.status = "ok"

\* C19: a create_trade request stores a row only when its type is BUY or
\* SELL, its price > 0 and its quantity > 0; any other request is rejected
\* and leaves trades, holdings and cash unchanged.
C19_OnlyValidTradesStored ==
    [][ lastOp'.op = "create_trade" =>
          \/ /\ lastOp'.trade_type \in {"BUY", "SELL"}
             /\ lastOp'.price > 0
             /\ lastOp'.quantity > 0
          \/ /\ lastOp'.status = "rejected"
             /\ trades' = trades /\ holdings' = holdings /\ cash' = cash
      ]_vars

----------------------------------------------------------------------------
\* Date of the synthetic BUY

\* C21: a synthetic BUY is dated one day before the earliest date among the
\* other trades of its (owner, ticker) present when it is inserted, or today
\* when there is none; it then sorts strictly before each of them in
\* (date, id) order and is the first trade of the replay.
C21_SyntheticDate ==
    [][ \A t \in trades' \ trades :
          IsSynthetic(t) =>
            LET others == {o \in trades' : /\ o.user_id = t.user_id
                                          /\ o.ticker = t.ticker} \ {t}
            IN  IF others = {} THEN t.date = Today
                ELSE /\ \E e \in others :
                          /\ \A o \in others : e.date <= o.date
                          /\ t.date = e.date - 1
                     /\ \A o \in others : Earlier(t, o)
                     /\ SortedRows(others \cup {t})[1] = t
      ]_vars

\* an add_trade of a SELL dated 2 has just made the projector insert a
\* synthetic BUY dated 1, with a SELL dated 4 and of a lower id in the ledger
C21_Witness ==
    /\ lastOp.op = "add_trade" /\ lastOp.status = "ok"
    /\ lastOp.trade_type = "SELL" /\ lastOp.date = 2
    /\ \E t \in trades, o \in trades :
          /\ IsSynthetic(t) /\ t.id = lastOp.id + 1 /\ t.date = 1
          /\ o.ticker = t.ticker /\ o.user_id = t.user_id
          /\ o.date = 4 /\ o.id < lastOp.id

\* C26: an add_trade or delete_trade whose projector run takes the migration
\* path (no BUY row and a Holding with shares > 0 once the trade row is
\* inserted or deleted) completes and leaves a synthetic BUY in the ledger,
\* dated today when the earliest date string of the ticker's trades is not a
\* date, whatever the date strings stored.
C26_MigrationNeverFails ==
    [][ \A uid \in Owners, ticker \in Tickers :
          LET mid == IF lastOp'.op = "add_trade"
                     THEN InsertTrade(Db, uid, ticker, lastOp'.date,
                                      lastOp'.trade_type, lastOp'.price,
                                      lastOp'.quantity, "")
                     ELSE [Db EXCEPT !.trades = @ \ TradeRows(Db, uid, lastOp'.id)]
              first_trade == FirstTradeDate(mid, uid, ticker)
          IN  ( /\ lastOp'.uid = uid
                /\ \/ lastOp'.op = "add_trade" /\ lastOp'.ticker = ticker
                   \/ /\ lastOp'.op = "delete_trade"
                      /\ \E row \in TradeRows(Db, uid, lastOp'.id) :
                            row.ticker = ticker
                /\ NeedsMigration(mid, uid, ticker) )
              => /\ lastOp'.status = "ok"
                 /\ \E t \in trades' \ trades :
                       /\ IsSynthetic(t)
                       /\ t.user_id = uid /\ t.ticker = ticker
                       /\ ~IsIsoDate(first_trade.d) => t.date = Today
      ]_vars

----------------------------------------------------------------------------
\* Oversell and the order of the replay

\* C22 as claimed: after any sequence of create_trade, remove_trade and
\* remove_holding, the replay of a ticker's trades in (date, id) order never
\* meets a SELL of more shares than are held at that point of the replay.
C22_NoOversellInLedger ==
    \A uid \in Owners, ticker \in Tickers :
        LET seq == SortedRows(TradesOf(Db, uid, ticker))
        IN  \A k \in 1..Len(seq) :
                seq[k].trade_type = "SELL" =>
                    seq[k].quantity <= Replay(SubSeq(seq, 1, k - 1)).shares

\* The projector has just run for (uid, ticker) and its writes were committed.
ProjectorRan(op, uid, ticker) ==
    /\ op.status = "ok"
    /\ op.uid = uid /\ op.ticker = ticker
    /\ \/ op.op \in {"add_trade", "_recompute_holding"}
       \/ op.op = "delete_trade" /\ op.removed > 0

\* C23: after every projector run the Holding of the (owner, ticker) is the
\* replay of its trades taken in (date ascending, id ascending) order,
\* trades of one date in id order, whatever operations came before; and a
\* projector run that follows another one of the same ticker, the trades
\* not having changed in between, changes no trade row and leaves the same
\* shares and avg_cost.
C23_ReplayDeterministic ==
    [][ \A uid \in Owners, ticker \in Tickers :
          ProjectorRan(lastOp', uid, ticker) =>
            LET seq  == LedgerSeq({t \in trades' : /\ t.user_id = uid
                                                  /\ t.ticker = ticker})
                p    == Projected(seq, Len(seq))
                rows == {h \in holdings' : h.user_id = uid /\ h.ticker = ticker}
            IN  /\ IF p.shares <= 0 THEN rows = {}
                   ELSE \E h \in rows :
                           /\ rows = {h}
                           /\ h.shares = p.shares
                           /\ IsRounded(h.avg_cost, p.num, p.den)
                /\ ( /\ lastOp'.op = "_recompute_holding"
                     /\ ProjectorRan(lastOp, uid, ticker) )
                   => (trades' = trades /\ holdings' = holdings)
      ]_vars

\* a projector run that found the Holding as the previous run left it: a SELL
\* and a BUY of the same date, the SELL of the lower id and so replayed
\* first and clamped, the Holding being the BUY alone
C23_Witness ==
    /\ lastOp.op = "_recompute_holding" /\ lastOp.status = "ok"
    /\ lastOp.held_before = HeldShares(Db, lastOp.uid, lastOp.ticker)
    /\ \E a \in trades, b \in trades :
          /\ TradesOf(Db, lastOp.uid, lastOp.ticker) = {a, b}
          /\ a.date = b.date /\ a.id < b.id
          /\ a.trade_type = "SELL" /\ b.trade_type = "BUY"
          /\ ~IsSynthetic(b)
          /\ HeldShares(Db, lastOp.uid, lastOp.ticker) = b.quantity

----------------------------------------------------------------------------
\* Exit price and return; the scorer as a read

\* C24: a record whose signals carry a non-zero current_price, whose
\* run_date + 14 days is today or earlier, and for whose ticker prices has a
\* row dated on or after run_date + 14 is scored with exit_price = the close
\* of the earliest such row (the one dated run_date + 14 when there is one)
\* and return_pct = (exit_price / entry_price - 1) * 100 rounded to 2
\* decimals, entry_price being signals.current_price.
C24_ExitPriceAndReturn ==
    lastOp.op = "get_analysis_history" =>
        \A a \in analyses :
            LET target == a.run_date + 14
                later  == {p \in prices : p.ticker = a.ticker /\ p.date >= target}
            IN  ( /\ a.ticker = lastOp.ticker
                  /\ \E kv \in a.signals : kv[1] = "current_price" /\ kv[2] # 0
                  /\ target <= today
                  /\ later # {} )
                => \E x \in Scored, p \in later, kv \in a.signals :
                      /\ x.id = a.id /\ x.has_return
                      /\ kv[1] = "current_price"
                      /\ \A q \in later : p.date <= q.date
                      /\ 2 * Abs(x.outcome_return_pct * kv[2]
                                  - 10000 * (p.close - kv[2])) <= kv[2]

\* on day 15, a record of day 1 scored at +5.01 percent from the row dated
\* 15, a row dated 17 with another close being in the store
C24_Witness ==
    /\ today = 15
    /\ \E x \in Scored, p \in prices, q \in prices :
          /\ x.run_date = 1 /\ x.has_return
          /\ p.ticker = x.ticker /\ q.ticker = x.ticker
          /\ p.date = 15 /\ q.date = 17
          /\ p.close = 31502 /\ q.close = 28500
          /\ x.outcome_return_pct = 501

\* C25: a get_analysis_history call changes no row of analyses, prices,
\* trades, holdings or settings, and a call that follows the same call, the
\* records, the prices and today being the same, returns the same outcome
\* and return_pct for every record.
C25_ScorerReadOnly ==
    [][ lastOp'.op = "get_analysis_history" =>
          /\ analyses' = analyses
          /\ prices' = prices
          /\ trades' = trades
          /\ holdings' = holdings
          /\ cash' = cash
          /\ today' = today
          /\ lastOp'.again =>
                {<<x.id, x.outcome, x.has_return, x.outcome_return_pct>> :
                      x \in lastOp'.result}
                = {<<x.id, x.outcome, x.has_return, x.outcome_return_pct>> :
                      x \in lastOp.result}
      ]_vars

\* the second of two calls in a row, returning one record scored correct and
\* one pending
C25_Witness ==
    /\ lastOp.op = "get_analysis_history" /\ lastOp.again
    /\ \E x \in Scored, y \in Scored :
          x.outcome = "correct" /\ y.outcome = "pending"

----------------------------------------------------------------------------
\* Requests at the same time

\* The request removes trade t when it runs on a ledger that holds it.
Covers(q, t) ==
    /\ q.uid = t.user_id
    /\ \/ q.op = "remove_trade" /\ q.id = t.id
       \/ q.op = "remove_holding" /\ q.ticker = t.ticker

\* C27 as claimed: when two delete_trade calls for one trade id, or a
\* delete_trade and a delete_ticker_trades covering that trade, have run at
\* the same time for one owner, the owner's cash balance is the one that
\* running the two calls one after the other, in one of the two orders,
\* leaves.
C27_CashReversedOnce ==
    ( /\ AllDone
      /\ \E r \in Requests : reqs[r].op = "remove_trade"
      /\ \E t \in db0.trades : Covers(reqs[1], t) /\ Covers(reqs[2], t) )
    => \E d \in SerialResults : cash = d.cash

\* What create_trade answers when it runs alone on db.
AnswerAlone(q, db) ==
    IF q.trade_type = "SELL" /\ Oversell(q.quantity, HeldShares(db, q.uid, q.ticker))
    THEN "rejected" ELSE "ok"

\* C28 as claimed: when two SELL create_trade requests of one owner and
\* ticker have run at the same time, each was accepted or rejected as it is
\* when the two run one after the other in one of the two orders, and the
\* quantities accepted add up to no more than the shares held before them.
C28_SellsAsOneStep ==
    ( /\ AllDone
      /\ \A r \in Requests :
            reqs[r].op = "create_trade" /\ reqs[r].trade_type = "SELL"
      /\ reqs[1].ticker = reqs[2].ticker )
    => /\ \E a \in Requests, b \in Requests :
             /\ a # b
             /\ reqs[a].status = AnswerAlone(reqs[a], db0)
             /\ reqs[b].status = AnswerAlone(reqs[b], Alone(reqs[a], db0))
       /\ (IF reqs[1].status = "ok" THEN reqs[1].quantity ELSE 0)
             + (IF reqs[2].status = "ok" THEN reqs[2].quantity ELSE 0)
          <= HeldShares(db0, reqs[1].uid, reqs[1].ticker)

\* C29 as claimed: when an update_cash deposit or withdraw has run at the
\* same time as the add_trade of create_trade or as delete_trade, for one
\* owner, the cash balance is the one that running the two one after the
\* other, in one of the two orders, leaves.
C29_NoLostCashUpdate ==
    ( /\ AllDone
      /\ \E a \in Requests, b \in Requests :
            /\ reqs[a].op = "update_cash"
            /\ reqs[b].op \in {"create_trade", "remove_trade"}
            /\ reqs[a].uid = reqs[b].uid )
    => \E d \in SerialResults : cash = d.cash

\* The trades, holdings and cash balances of a database.
Ledger(db) == <<db.trades, db.holdings, db.cash>>

\* C30: while an add_trade, delete_trade or delete_ticker_trades is under
\* way, the rows a SELECT of another connection sees are all those of the
\* state before it or all those of the state after it, and a get_trades,
\* get_holdings or get_cash made at any moment returns the rows of one of
\* these two states.
C30_ReadsSeeWholeStates ==
    \A r \in Requests, w \in Requests :
        ( /\ reqs[r].op \in {"get_trades", "get_holdings", "get_cash"}
          /\ reqs[w].op \in {"create_trade", "remove_trade", "remove_holding"} )
        => LET pre  == db0
               post == Alone(reqs[w], db0)
               q    == reqs[r]
           IN  /\ Ledger(Committed(Db, txn)) \in {Ledger(pre), Ledger(post)}
               /\ q.pc = "done" =>
                     \/ /\ q.op = "get_trades"
                        /\ q.result \in {GetTrades(pre, q.uid), GetTrades(post, q.uid)}
                     \/ /\ q.op = "get_holdings"
                        /\ q.result \in {GetHoldings(pre, q.uid),
                                          GetHoldings(post, q.uid)}
                     \/ /\ q.op = "get_cash"
                        /\ q.result \in {{[value |-> GetCash(pre, q.uid)]},
                                          {[value |-> GetCash(post, q.uid)]}}

\* get_trades has run while an add_trade on a position entered by hand had
\* inserted its SELL and the synthetic BUY but not yet moved the cash, and
\* returned no trade
C30_Witness ==
    \E r \in Requests, w \in Requests :
        /\ reqs[r].op = "get_trades" /\ reqs[r].pc = "done"
        /\ reqs[r].during /\ reqs[r].result = {}
        /\ txn.writer = w /\ reqs[w].op = "create_trade" /\ reqs[w].pc = "adjust"
        /\ \E t \in txn.db.trades : IsSynthetic(t)
        /\ \E t \in txn.db.trades : t.trade_type = "SELL"

====
